---- MODULE Spec2Model ----
(***************************************************************************)
(* Model of XYDataSeries (js/XYDataSeries.js): a pair of parallel arrays   *)
(* indexed by a manual length counter, with a list of point listeners and  *)
(* a 'cleared' event.  Spec drives one instance through every operation;   *)
(* SpecInstances drives two instances side by side; SpecShift adds the     *)
(* eviction of the windowed series.                                        *)
(***************************************************************************)
EXTENDS Integers, Sequences, FiniteSets, TLC

\* ---------------------------------------------------------------- bounds
MaxCalls == 3          \* addPoint calls made in a run, over all series
MaxListeners == 2      \* registrations held in a run, over all series
MaxInitialSize == 2    \* largest options.initialSize tried
MaxIndex == 4          \* largest index handed to getX / getY

Series == {"s1", "s2"}
Listeners == {"l1", "l2"}
\* the (x, y) pairs handed to addPoint
Points == {<<1, 7>>, <<2, 8>>}
InitialSizes == 1..MaxInitialSize
Indices == (0 - 1)..MaxIndex

\* JavaScript's undefined: an array hole or a read outside the array
Undefined == 0

VARIABLES
  initialSize,       \* options.initialSize each series was constructed with
  xPoints,           \* this.xPoints, a JS array: index i is element i + 1
  yPoints,           \* this.yPoints
  dataSeriesLength,  \* this.dataSeriesLength
  listeners,         \* this.listeners
  ret,               \* the last mutating call and how it came back
  fired,             \* the callbacks and events the last call invoked, in order
  appended,          \* ghost: the points added since construction or clear()
  adds,              \* ghost: addPoint calls since construction or clear()
  evictions,         \* ghost: successful shiftData calls since then
  pointCalls,        \* ghost: addPoint calls since the listener list changed
  received,          \* ghost: the point notifications delivered since then
  nCalls             \* ghost: addPoint calls made so far, over all series

seriesVars == <<initialSize, xPoints, yPoints, dataSeriesLength, listeners, ret,
                fired, appended, adds, evictions, pointCalls, received, nCalls>>

\* ------------------------------------------------- charts and demo screen
\* model units per unit of time: dt and every time are multiples of 1/4
Unit == 4

MaxSteps == 4          \* step( dt ) calls made in a run
MaxChartTime == 24     \* largest value given to a chart's timeProperty

\* the elapsed times handed to step( dt ): a quarter and six time units
Dts == {1, 6 * Unit}

\* the demos that add a listener to the shared emitter
Demos == {"GridNode", "XYChartNode", "SeismographNode", "XYCursorChartNode"}

VARIABLES
  chart,             \* a ScrollingChartNode: its options, timeProperty and transform
  emitter,           \* the listeners of the shared step emitter, in order
  status,            \* per demo: "none", "created" or "disposed"
  gridDemo,          \* demoGridNode: offset, scrollingProperty, transform
  chartDemo,         \* demoScrollingChartNode: timeProperty, styleProperty,
                     \* transform, series1, series2
  seismographDemo,   \* demoSeismographNode: timeProperty, series1
  cursorDemo,        \* demoXYCursorPlot: timeProperty, transform, dataSeries,
                     \* dragging, cursor value
  stepLog,           \* what each listener did during the last step( dt ), in order
  nSteps             \* ghost: step( dt ) calls made so far

demoVars == <<chart, emitter, status, gridDemo, chartDemo, seismographDemo,
              cursorDemo, stepLog, nSteps>>

VARIABLES
  barNode            \* a BarNode: its entries and their values, scaleProperty,
                     \* totalRangeProperty, options, the rectangles and the arrow

vars == <<seriesVars, demoVars, barNode>>

\* Bounds2( minX, minY, maxX, maxY )
Bounds2(minX, minY, maxX, maxY) ==
  [minX |-> minX, minY |-> minY, maxX |-> maxX, maxY |-> maxY]

\* a rectangle mapping is determined by its two rectangles
RectangleMapping(source, dest) == [source |-> source, dest |-> dest]

\* the window of a ScrollingChartNode: the literal 4 in time - 4
chartSpan == 4 * Unit

\* the link callback with the window held at [0, 4] until time passes 4
ChartLinkClamped(options, time) ==
  RectangleMapping(
    IF time > chartSpan
      THEN Bounds2(time - chartSpan, 0 - Unit, time, Unit)
      ELSE Bounds2(0, 0 - Unit, chartSpan, Unit),
    Bounds2(0, 0, options.width - options.rightGraphMargin, options.height))

\* the callback linked to timeProperty: the transform it sets for a time
ChartLink(options, time) ==
  RectangleMapping(
    Bounds2(time - chartSpan, 0 - Unit, time, Unit),
    Bounds2(0, 0, options.width - options.rightGraphMargin, options.height))

\* the options a chart is constructed with: the defaults and one override each
ChartOptions ==
  [width : {190, 200}, height : {140, 150}, rightGraphMargin : {10, 20}]

\* new ScrollingChartNode( timeProperty, ... ): link calls back at once
NewChart(options, time) ==
  [options |-> options, time |-> time, transform |-> ChartLink(options, time)]

NoLog == [d \in Demos |-> <<>>]

\* before any demo is selected
InitDemoIdle ==
  /\ chart \in {NewChart(o, 0) : o \in ChartOptions}
  /\ emitter = <<>>
  /\ status = [d \in Demos |-> "none"]
  /\ gridDemo = [offset |-> 0, scrolling |-> FALSE,
                 transform |-> RectangleMapping(Bounds2(0, 0, 0, 0), Bounds2(0, 0, 0, 0))]
  /\ chartDemo = [time |-> 0, style |-> "LINE",
                  transform |-> RectangleMapping(Bounds2(0, 0, 0, 0), Bounds2(0, 0, 0, 0)),
                  series1 |-> <<>>, series2 |-> <<>>]
  /\ seismographDemo = [time |-> 0, series1 |-> <<>>]
  /\ cursorDemo = [time |-> 0, dragging |-> FALSE, cursorValue |-> 0,
                   transform |-> RectangleMapping(Bounds2(0, 0, 0, 0), Bounds2(0, 0, 0, 0)),
                   dataSeries |-> <<>>]
  /\ stepLog = NoLog
  /\ nSteps = 0

\* ------------------------------------------------------- JS array helpers
RangeOf(seq) == {seq[i] : i \in 1..Len(seq)}

\* new Array( n ): n holes
NewArray(n) == [i \in 1..n |-> Undefined]

\* arr[ index ]: undefined outside the array, negative indices included
ArrGet(arr, index) ==
  IF index >= 0 /\ index < Len(arr) THEN arr[index + 1] ELSE Undefined

\* a store that never grows the array: a write past the end is dropped
ArrSetFixedCapacity(arr, index, v) ==
  IF index >= 0 /\ index < Len(arr) THEN [arr EXCEPT ![index + 1] = v] ELSE arr

\* arr[ index ] = v for index >= 0: the array grows to hold the index
ArrSet(arr, index, v) ==
  IF index < Len(arr)
    THEN [arr EXCEPT ![index + 1] = v]
    ELSE [i \in 1..(index + 1) |->
            IF i <= Len(arr) THEN arr[i] ELSE IF i = index + 1 THEN v ELSE Undefined]

\* listeners.indexOf( listener ): the first position, or -1
LastIndexOf(seq, e) ==
  IF e \in RangeOf(seq)
    THEN (CHOOSE i \in 1..Len(seq) :
            seq[i] = e /\ \A j \in (i + 1)..Len(seq) : seq[j] # e) - 1
    ELSE 0 - 1

IndexOf(seq, e) ==
  IF e \in RangeOf(seq)
    THEN (CHOOSE i \in 1..Len(seq) :
            seq[i] = e /\ \A j \in 1..(i - 1) : seq[j] # e) - 1
    ELSE 0 - 1

\* seq.splice( index, 1 ): a negative index counts from the end
Splice1(seq, index) ==
  LET start == IF index < 0
                 THEN (IF Len(seq) + index < 0 THEN 0 ELSE Len(seq) + index)
                 ELSE (IF index > Len(seq) THEN Len(seq) ELSE index)
  IN [i \in 1..(IF start < Len(seq) THEN Len(seq) - 1 ELSE Len(seq)) |->
        IF i <= start THEN seq[i] ELSE seq[i + 1]]

\* ------------------------------------------------------------- accessors
getLength(s) == dataSeriesLength[s]

\* the range check with the comparison off by one
GetAtOffByOne(arr, length, index) ==
  IF index > length
    THEN [threw |-> TRUE, val |-> Undefined]
    ELSE [threw |-> FALSE, val |-> ArrGet(arr, index)]

\* the body shared by getX and getY, on the array and length it reads
GetAt(arr, length, index) ==
  IF index > length - 1
    THEN [threw |-> TRUE, val |-> Undefined]
    ELSE [threw |-> FALSE, val |-> ArrGet(arr, index)]

\* getX( index ) and getY( index ) read the series and change nothing
getX(s, index) == GetAt(xPoints[s], dataSeriesLength[s], index)

getY(s, index) == GetAt(yPoints[s], dataSeriesLength[s], index)

\* the record of a call: the series, the listener handed in, the length
\* of the series when the call was made, and whether the call raised
NoCall == [op |-> "new", s |-> "s1", listener |-> "none", length |-> 0, threw |-> FALSE]

Call(name, s) == [NoCall EXCEPT !.op = name, !.s = s, !.length = dataSeriesLength[s]]

ClearedEvent(s) ==
  [type |-> "cleared", s |-> s, listener |-> "none", x |-> Undefined, y |-> Undefined,
   previousX |-> Undefined, previousY |-> Undefined,
   lengthSeen |-> 0, lastSeen |-> [threw |-> FALSE, val |-> Undefined]]

\* ---------------------------------------------------------------- BarNode
MaxEntries == 2        \* bar entries of a BarNode
MaxSets == 2           \* property changes made on a BarNode in a run

\* values the sliders of the bar chart demo give the entry properties
Values == {0 - 100, 0, 90}

Scales == {1, 2}

TotalRanges == {[min |-> 0, max |-> 100], [min |-> 0 - 100, max |-> 200]}

EntryColors == <<"red", "green", "blue", "orange">>

\* modifyBarHeight of an entry: absent, or a function of ( value, scale )
Modifiers == {"none", "twice"}

\* the options of BarNode; arrowHeight is the height of the off-scale arrow
BarOptions ==
  [borderWidth : {1}, showOffScaleArrow : BOOLEAN, offScaleArrowOffset : {5},
   arrowHeight : {15}, invalidBarColor : {"gray"}]

Min(a, b) == IF a < b THEN a ELSE b

Max(a, b) == IF a > b THEN a ELSE b

Abs(a) == IF a < 0 THEN 0 - a ELSE a

\* Utils.sign
Sign(a) == IF a > 0 THEN 1 ELSE IF a < 0 THEN 0 - 1 ELSE 0

\* Range.constrainValue( value )
ConstrainValue(range, value) == Min(Max(value, range.min), range.max)

\* setBarYValues( rectangle, y1, y2 )
setBarYValues(rectangle, y1, y2) ==
  [rectangle EXCEPT !.rectY = Min(y1, y2), !.rectHeight = Abs(y1 - y2)]

\* the effective range of update(): the total range less the border and,
\* with the off-scale arrow shown, less the room of the arrow
EffectiveRange(node) ==
  LET total == node.totalRange
      arrowPadding == node.options.arrowHeight + node.options.offScaleArrowOffset
      bordered == [min |-> IF total.min < 0 THEN total.min + node.options.borderWidth
                                            ELSE total.min,
                   max |-> total.max - node.options.borderWidth]
  IN IF node.options.showOffScaleArrow
       THEN [min |-> IF bordered.min < 0 THEN bordered.min + arrowPadding ELSE bordered.min,
             max |-> bordered.max - arrowPadding]
       ELSE bordered

\* barEntry.property.value * scale
ScaledValue(barEntry, scale) == barEntry.value * scale

\* barEntry.modifyBarHeight( value, scale )
modifyBarHeight(barEntry, scale) == 2 * barEntry.value * scale

\* the first loop of update(): total and hasNegative
RECURSIVE Total(_, _)
Total(barEntries, scale) ==
  IF barEntries = <<>>
    THEN 0
    ELSE ScaledValue(Head(barEntries), scale) + Total(Tail(barEntries), scale)

\* the invalid bar test on the sign of the values alone
InvalidBarAnyCount(barEntries, scale) ==
  \E i \in 1..Len(barEntries) : ScaledValue(barEntries[i], scale) < 0

\* hasNegative && this.barEntries.length > 1
InvalidBar(barEntries, scale) ==
  /\ \E i \in 1..Len(barEntries) : ScaledValue(barEntries[i], scale) < 0
  /\ Len(barEntries) > 1

\* the loop over the bars from bar i on, the stack standing at currentY
RECURSIVE StackFrom(_, _, _, _)
StackFrom(node, i, currentY, bars) ==
  IF i > Len(node.barEntries)
    THEN [currentY |-> currentY, bars |-> bars]
    ELSE
      LET barEntry == node.barEntries[i]
          barValue == IF barEntry.modifier # "none"
                        THEN modifyBarHeight(barEntry, node.scale)
                        ELSE ScaledValue(barEntry, node.scale)
          nextY == ConstrainValue(EffectiveRange(node), currentY + barValue)
          filled == [bars[i] EXCEPT !.fill = barEntry.color]
          bar == IF nextY # currentY
                   THEN [setBarYValues(filled, currentY, nextY) EXCEPT !.visible = TRUE]
                   ELSE [filled EXCEPT !.visible = FALSE]
      IN StackFrom(node, i + 1, nextY, [bars EXCEPT ![i] = bar])

\* the invalid bar: the first rectangle alone shows the constrained total
InvalidStack(node) ==
  LET currentY == ConstrainValue(EffectiveRange(node), Total(node.barEntries, node.scale))
      firstBar == [setBarYValues(node.bars[1], 0, currentY)
                     EXCEPT !.fill = node.options.invalidBarColor, !.visible = TRUE]
  IN [currentY |-> currentY,
      bars |-> [i \in 1..Len(node.bars) |->
                  IF i = 1 THEN firstBar ELSE [node.bars[i] EXCEPT !.visible = FALSE]]]

\* the arrow shown at either limit, whatever the sign of currentY
OffScaleArrowAtEitherLimit(node, currentY) ==
  LET effectiveRange == EffectiveRange(node)
  IN IF currentY = effectiveRange.max
       THEN [visible |-> TRUE, rotation |-> "0",
             y |-> effectiveRange.max + node.options.offScaleArrowOffset]
       ELSE IF currentY = effectiveRange.min
         THEN [visible |-> TRUE, rotation |-> "PI",
               y |-> effectiveRange.min - node.options.offScaleArrowOffset]
         ELSE [node.offScaleArrow EXCEPT !.visible = FALSE]

\* the off-scale arrow of update()
OffScaleArrow(node, currentY) ==
  LET effectiveRange == EffectiveRange(node)
  IN IF currentY = effectiveRange.max
       THEN [visible |-> TRUE, rotation |-> "0",
             y |-> effectiveRange.max + node.options.offScaleArrowOffset]
       ELSE IF currentY = effectiveRange.min /\ currentY < 0
         THEN [visible |-> TRUE, rotation |-> "PI",
               y |-> effectiveRange.min - node.options.offScaleArrowOffset]
         ELSE [node.offScaleArrow EXCEPT !.visible = FALSE]

\* update(): the node after the call; currentY is kept for the record
Updated(node) ==
  LET stack == IF InvalidBar(node.barEntries, node.scale)
                 THEN InvalidStack(node)
                 ELSE StackFrom(node, 1, 0, node.bars)
      currentY == stack.currentY
  IN [node EXCEPT
        !.bars = stack.bars,
        !.offScaleArrow = OffScaleArrow(node, currentY),
        !.borderRectangle =
           [setBarYValues(@, 0, currentY + node.options.borderWidth * Sign(currentY))
              EXCEPT !.visible = (currentY # 0)],
        !.currentY = currentY,
        !.op = "update"]

\* new Rectangle( 0, 0, width, 0 )
NewRectangle == [fill |-> "none", rectY |-> 0, rectHeight |-> 0, visible |-> TRUE]

\* new BarNode( barEntries, totalRangeProperty, options ): ends with update()
NewBarNode(barEntries, totalRange, scale, options) ==
  Updated([barEntries |-> barEntries, totalRange |-> totalRange, scale |-> scale,
           options |-> options,
           bars |-> [i \in 1..Len(barEntries) |-> NewRectangle],
           borderRectangle |-> [NewRectangle EXCEPT !.fill = "black"],
           offScaleArrow |-> [visible |-> TRUE, rotation |-> "0", y |-> 0],
           currentY |-> 0, op |-> "new", sets |-> 0])

\* the entries a BarNode can be given: one to MaxEntries of them, the
\* first one with or without a modifyBarHeight
BarEntries ==
  {barEntries \in UNION {[1..n -> [value : Values, modifier : Modifiers]] :
                           n \in 1..MaxEntries} :
     \A i \in 2..Len(barEntries) : barEntries[i].modifier = "none"}

Coloured(barEntries) ==
  [i \in 1..Len(barEntries) |->
     [value |-> barEntries[i].value, modifier |-> barEntries[i].modifier,
      color |-> EntryColors[i]]]

\* the BarNode of the specifications that are about something else
IdleBarNode ==
  barNode = NewBarNode(Coloured(<<[value |-> 0, modifier |-> "none"]>>),
                       [min |-> 0, max |-> 100], 1,
                       [borderWidth |-> 1, showOffScaleArrow |-> TRUE,
                        offScaleArrowOffset |-> 5, arrowHeight |-> 15,
                        invalidBarColor |-> "gray"])

\* ------------------------------------------------------------------ Init
Init ==
  /\ initialSize \in [Series -> InitialSizes]
  /\ xPoints = [s \in Series |-> NewArray(initialSize[s])]
  /\ yPoints = [s \in Series |-> NewArray(initialSize[s])]
  /\ dataSeriesLength = [s \in Series |-> 0]
  /\ listeners = [s \in Series |-> <<>>]
  /\ ret = NoCall
  /\ fired = <<>>
  /\ appended = [s \in Series |-> <<>>]
  /\ adds = [s \in Series |-> 0]
  /\ evictions = [s \in Series |-> 0]
  /\ pointCalls = [s \in Series |-> <<>>]
  /\ received = [s \in Series |-> <<>>]
  /\ nCalls = 0
  /\ InitDemoIdle
  /\ chart.options = [width |-> 190, height |-> 140, rightGraphMargin |-> 10]
  /\ IdleBarNode

\* ------------------------------------------------------------ operations
Registrations == Len(listeners["s1"]) + Len(listeners["s2"])

\* addDataSeriesListener( listener ): push, duplicates are kept
AddDataSeriesListener(s, l) ==
  /\ Registrations < MaxListeners
  /\ listeners' = [listeners EXCEPT ![s] = Append(@, l)]
  /\ ret' = [Call("addDataSeriesListener", s) EXCEPT !.listener = l]
  /\ fired' = <<>>
  /\ pointCalls' = [pointCalls EXCEPT ![s] = <<>>]
  /\ received' = [received EXCEPT ![s] = <<>>]
  /\ UNCHANGED demoVars
  /\ UNCHANGED barNode
  /\ UNCHANGED <<initialSize, xPoints, yPoints, dataSeriesLength, appended,
                 adds, evictions, nCalls>>

\* the removal without the index !== -1 test: splice( -1, 1 ) drops the last
RemoveNoGuard(s, l) ==
  LET after == Splice1(listeners[s], IndexOf(listeners[s], l))
  IN /\ listeners' = [listeners EXCEPT ![s] = after]
     /\ ret' = [Call("removeDataSeriesListener", s) EXCEPT !.listener = l]
     /\ fired' = <<>>
     /\ pointCalls' = [pointCalls EXCEPT ![s] = IF after = listeners[s] THEN @ ELSE <<>>]
     /\ received' = [received EXCEPT ![s] = IF after = listeners[s] THEN @ ELSE <<>>]
     /\ UNCHANGED demoVars
     /\ UNCHANGED barNode
     /\ UNCHANGED <<initialSize, xPoints, yPoints, dataSeriesLength, appended,
                    adds, evictions, nCalls>>

\* removeDataSeriesListener( listener ): drops the first registration, if any
RemoveDataSeriesListener(s, l) ==
  LET index == IndexOf(listeners[s], l)
      after == IF index # 0 - 1 THEN Splice1(listeners[s], index) ELSE listeners[s]
  IN /\ listeners' = [listeners EXCEPT ![s] = after]
     /\ ret' = [Call("removeDataSeriesListener", s) EXCEPT !.listener = l]
     /\ fired' = <<>>
     /\ pointCalls' = [pointCalls EXCEPT ![s] = IF after = listeners[s] THEN @ ELSE <<>>]
     /\ received' = [received EXCEPT ![s] = IF after = listeners[s] THEN @ ELSE <<>>]
     /\ UNCHANGED demoVars
     /\ UNCHANGED barNode
     /\ UNCHANGED <<initialSize, xPoints, yPoints, dataSeriesLength, appended,
                    adds, evictions, nCalls>>

\* what listener i is called with, and what it reads back from the series
\* when it is called: dataSeriesLength is still the length before the call
Notification(s, i, x, y, xs, ys, previousIndex) ==
  [type |-> "point", s |-> s, listener |-> listeners[s][i], x |-> x, y |-> y,
   previousX |-> ArrGet(xs, previousIndex),
   previousY |-> ArrGet(ys, previousIndex),
   lengthSeen |-> dataSeriesLength[s],
   lastSeen |-> [threw |-> GetAt(xs, dataSeriesLength[s], dataSeriesLength[s] - 1).threw,
                 val |-> <<GetAt(xs, dataSeriesLength[s], dataSeriesLength[s] - 1).val,
                           GetAt(ys, dataSeriesLength[s], dataSeriesLength[s] - 1).val>>]]

\* the loop started at the second listener
NotificationsSkipFirst(s, x, y, xs, ys) ==
  [i \in 1..(Len(listeners[s]) - 1) |->
     Notification(s, i + 1, x, y, xs, ys, dataSeriesLength[s] - 1)]

\* the previous values read from the slot just written
NotificationsPreviousIsNew(s, x, y, xs, ys) ==
  [i \in 1..Len(listeners[s]) |->
     Notification(s, i, x, y, xs, ys, dataSeriesLength[s])]

\* the notification loop of addPoint, over the arrays as just written
Notifications(s, x, y, xs, ys) ==
  [i \in 1..Len(listeners[s]) |->
     Notification(s, i, x, y, xs, ys, dataSeriesLength[s] - 1)]

\* addPoint with the arrays shared by all instances (kept on the prototype)
AddPointSharedArrays(s, p) ==
  LET x == p[1]
      y == p[2]
      xs == ArrSet(xPoints[s], dataSeriesLength[s], x)
      ys == ArrSet(yPoints[s], dataSeriesLength[s], y)
      notes == Notifications(s, x, y, xs, ys)
  IN /\ nCalls < MaxCalls
     /\ xPoints' = [t \in Series |-> ArrSet(xPoints[t], dataSeriesLength[s], x)]
     /\ yPoints' = [t \in Series |-> ArrSet(yPoints[t], dataSeriesLength[s], y)]
     /\ fired' = notes
     /\ dataSeriesLength' = [dataSeriesLength EXCEPT ![s] = @ + 1]
     /\ ret' = Call("addPoint", s)
     /\ appended' = [appended EXCEPT ![s] = Append(@, [x |-> x, y |-> y])]
     /\ adds' = [adds EXCEPT ![s] = @ + 1]
     /\ pointCalls' = [pointCalls EXCEPT ![s] = Append(@, [x |-> x, y |-> y])]
     /\ received' = [received EXCEPT ![s] = @ \o notes]
     /\ nCalls' = nCalls + 1
     /\ UNCHANGED demoVars
     /\ UNCHANGED barNode
     /\ UNCHANGED <<initialSize, listeners, evictions>>

\* addPoint that stores x and forgets y
AddPointDropsY(s, p) ==
  LET x == p[1]
      y == p[2]
      xs == ArrSet(xPoints[s], dataSeriesLength[s], x)
      ys == ArrSet(yPoints[s], dataSeriesLength[s], Undefined)
      notes == Notifications(s, x, y, xs, ys)
  IN /\ nCalls < MaxCalls
     /\ xPoints' = [xPoints EXCEPT ![s] = xs]
     /\ yPoints' = [yPoints EXCEPT ![s] = ys]
     /\ fired' = notes
     /\ dataSeriesLength' = [dataSeriesLength EXCEPT ![s] = @ + 1]
     /\ ret' = Call("addPoint", s)
     /\ appended' = [appended EXCEPT ![s] = Append(@, [x |-> x, y |-> y])]
     /\ adds' = [adds EXCEPT ![s] = @ + 1]
     /\ pointCalls' = [pointCalls EXCEPT ![s] = Append(@, [x |-> x, y |-> y])]
     /\ received' = [received EXCEPT ![s] = @ \o notes]
     /\ nCalls' = nCalls + 1
     /\ UNCHANGED demoVars
     /\ UNCHANGED barNode
     /\ UNCHANGED <<initialSize, listeners, evictions>>

\* addPoint( x, y ): store, notify every listener, then count the point
AddPoint(s, p) ==
  LET x == p[1]
      y == p[2]
      xs == ArrSet(xPoints[s], dataSeriesLength[s], x)
      ys == ArrSet(yPoints[s], dataSeriesLength[s], y)
      notes == Notifications(s, x, y, xs, ys)
  IN /\ nCalls < MaxCalls
     /\ xPoints' = [xPoints EXCEPT ![s] = xs]
     /\ yPoints' = [yPoints EXCEPT ![s] = ys]
     /\ fired' = notes
     /\ dataSeriesLength' = [dataSeriesLength EXCEPT ![s] = @ + 1]
     /\ ret' = Call("addPoint", s)
     /\ appended' = [appended EXCEPT ![s] = Append(@, [x |-> x, y |-> y])]
     /\ adds' = [adds EXCEPT ![s] = @ + 1]
     /\ pointCalls' = [pointCalls EXCEPT ![s] = Append(@, [x |-> x, y |-> y])]
     /\ received' = [received EXCEPT ![s] = @ \o notes]
     /\ nCalls' = nCalls + 1
     /\ UNCHANGED demoVars
     /\ UNCHANGED barNode
     /\ UNCHANGED <<initialSize, listeners, evictions>>

\* clear that triggers without resetting the length
ClearKeepsLength(s) ==
  /\ fired' = <<ClearedEvent(s)>>
  /\ ret' = Call("clear", s)
  /\ appended' = [appended EXCEPT ![s] = <<>>]
  /\ adds' = [adds EXCEPT ![s] = 0]
  /\ evictions' = [evictions EXCEPT ![s] = 0]
  /\ UNCHANGED demoVars
  /\ UNCHANGED barNode
  /\ UNCHANGED <<initialSize, xPoints, yPoints, dataSeriesLength, listeners,
                 pointCalls, received, nCalls>>

\* clear that triggers 'cleared' once per point it drops
ClearPerPoint(s) ==
  /\ dataSeriesLength' = [dataSeriesLength EXCEPT ![s] = 0]
  /\ fired' = [i \in 1..dataSeriesLength[s] |-> ClearedEvent(s)]
  /\ ret' = Call("clear", s)
  /\ appended' = [appended EXCEPT ![s] = <<>>]
  /\ adds' = [adds EXCEPT ![s] = 0]
  /\ evictions' = [evictions EXCEPT ![s] = 0]
  /\ UNCHANGED demoVars
  /\ UNCHANGED barNode
  /\ UNCHANGED <<initialSize, xPoints, yPoints, listeners, pointCalls, received,
                 nCalls>>

\* clear(): the length goes to 0, the arrays are left as they are, and
\* 'cleared' is triggered once
Clear(s) ==
  /\ dataSeriesLength' = [dataSeriesLength EXCEPT ![s] = 0]
  /\ fired' = <<ClearedEvent(s)>>
  /\ ret' = Call("clear", s)
  /\ appended' = [appended EXCEPT ![s] = <<>>]
  /\ adds' = [adds EXCEPT ![s] = 0]
  /\ evictions' = [evictions EXCEPT ![s] = 0]
  /\ UNCHANGED demoVars
  /\ UNCHANGED barNode
  /\ UNCHANGED <<initialSize, xPoints, yPoints, listeners, pointCalls, received,
                 nCalls>>

\* shiftData that drops the newest sample instead of the oldest
ShiftDataDropsNewest(s) ==
  /\ ret' = [Call("shiftData", s) EXCEPT !.threw = FALSE]
  /\ fired' = <<>>
  /\ IF dataSeriesLength[s] > 0
       THEN /\ dataSeriesLength' = [dataSeriesLength EXCEPT ![s] = @ - 1]
            /\ appended' = [appended EXCEPT ![s] = Tail(@)]
            /\ evictions' = [evictions EXCEPT ![s] = @ + 1]
            /\ UNCHANGED <<xPoints, yPoints>>
       ELSE UNCHANGED <<xPoints, yPoints, dataSeriesLength, appended, evictions>>
  /\ UNCHANGED demoVars
  /\ UNCHANGED barNode
  /\ UNCHANGED <<initialSize, listeners, adds, pointCalls, received, nCalls>>

\* shiftData(): the oldest sample is dropped and the rest move down by one;
\* no listener is called; on an empty series nothing happens
ShiftData(s) ==
  /\ ret' = [Call("shiftData", s) EXCEPT !.threw = FALSE]
  /\ fired' = <<>>
  /\ IF dataSeriesLength[s] > 0
       THEN /\ xPoints' = [xPoints EXCEPT ![s] = Tail(@)]
            /\ yPoints' = [yPoints EXCEPT ![s] = Tail(@)]
            /\ dataSeriesLength' = [dataSeriesLength EXCEPT ![s] = @ - 1]
            /\ appended' = [appended EXCEPT ![s] = Tail(@)]
            /\ evictions' = [evictions EXCEPT ![s] = @ + 1]
       ELSE UNCHANGED <<xPoints, yPoints, dataSeriesLength, appended, evictions>>
  /\ UNCHANGED demoVars
  /\ UNCHANGED barNode
  /\ UNCHANGED <<initialSize, listeners, adds, pointCalls, received, nCalls>>

\* the instance the listeners are registered on
Listened == {"s1"}

Next ==
  \/ \E s \in Listened, l \in Listeners : AddDataSeriesListener(s, l)
  \/ \E s \in Listened, l \in Listeners : RemoveDataSeriesListener(s, l)
  \/ \E s \in Listened, p \in Points : AddPoint(s, p)
  \/ \E s \in Listened : Clear(s)

Spec == Init /\ [][Next]_vars

\* the buffer operations together with the eviction of the windowed series
NextShift ==
  \/ \E s \in Series, p \in Points : AddPoint(s, p)
  \/ \E s \in Series : Clear(s)
  \/ \E s \in Series : ShiftData(s)

SpecShift == Init /\ [][NextShift]_vars

\* two instances used side by side
NextInstances ==
  \/ \E s \in Series, p \in Points : AddPoint(s, p)
  \/ \E s \in Series : Clear(s)

SpecInstances == Init /\ [][NextInstances]_vars

\* one instance with the listener of its plot, used as a windowed series:
\* points are appended by the producer and the oldest are evicted by the
\* consumer
NextWindowed ==
  \/ \E s \in Listened : AddDataSeriesListener(s, "l1")
  \/ \E s \in Listened, p \in Points : AddPoint(s, p)
  \/ \E s \in Listened : Clear(s)
  \/ \E s \in Listened : ShiftData(s)

SpecWindowed == Init /\ [][NextWindowed]_vars

\* the sizes handed to the constructor, 0 and a negative one included
ConstructorSizes == (0 - 1)..MaxInitialSize

\* new Array( n ) raises a RangeError for a negative length
NewArrayThrows(n) == n < 0

\* new XYDataSeries( { initialSize: n } ) for the listened instance: when
\* new Array raises, the constructor raises and there is no instance
InitNew ==
  /\ initialSize \in [Series -> ConstructorSizes]
  /\ \A s \in Series \ Listened : initialSize[s] \in InitialSizes
  /\ xPoints = [s \in Series |->
                  IF NewArrayThrows(initialSize[s]) THEN <<>> ELSE NewArray(initialSize[s])]
  /\ yPoints = [s \in Series |->
                  IF NewArrayThrows(initialSize[s]) THEN <<>> ELSE NewArray(initialSize[s])]
  /\ dataSeriesLength = [s \in Series |-> 0]
  /\ listeners = [s \in Series |-> <<>>]
  /\ ret = [NoCall EXCEPT !.threw = \E s \in Listened : NewArrayThrows(initialSize[s])]
  /\ fired = <<>>
  /\ appended = [s \in Series |-> <<>>]
  /\ adds = [s \in Series |-> 0]
  /\ evictions = [s \in Series |-> 0]
  /\ pointCalls = [s \in Series |-> <<>>]
  /\ received = [s \in Series |-> <<>>]
  /\ nCalls = 0
  /\ InitDemoIdle
  /\ chart.options = [width |-> 190, height |-> 140, rightGraphMargin |-> 10]
  /\ IdleBarNode

\* the instance can be called only if its constructor returned
NextNew ==
  \/ \E s \in Listened, p \in Points :
       ~NewArrayThrows(initialSize[s]) /\ AddPoint(s, p)
  \/ \E s \in Listened :
       ~NewArrayThrows(initialSize[s]) /\ Clear(s)

SpecNew == InitNew /\ [][NextNew]_vars

\* --------------------------------------------------- ScrollingChartNode
\* the XYDataSeries instances while only charts and demos are exercised
IdleSeries ==
  /\ initialSize = [s \in Series |-> 1]
  /\ xPoints = [s \in Series |-> NewArray(initialSize[s])]
  /\ yPoints = [s \in Series |-> NewArray(initialSize[s])]
  /\ dataSeriesLength = [s \in Series |-> 0]
  /\ listeners = [s \in Series |-> <<>>]
  /\ ret = NoCall
  /\ fired = <<>>
  /\ appended = [s \in Series |-> <<>>]
  /\ adds = [s \in Series |-> 0]
  /\ evictions = [s \in Series |-> 0]
  /\ pointCalls = [s \in Series |-> <<>>]
  /\ received = [s \in Series |-> <<>>]
  /\ nCalls = 0

\* a series on which listeners were registered before, some more than once
MaxRegistered == 3     \* addDataSeriesListener calls made before the run

RECURSIVE ListsUpTo(_)
ListsUpTo(n) ==
  IF n = 0
    THEN {<<>>}
    ELSE ListsUpTo(n - 1) \cup {Append(q, l) : q \in ListsUpTo(n - 1), l \in Listeners}

InitRegistered ==
  /\ initialSize = [s \in Series |-> 1]
  /\ xPoints = [s \in Series |-> NewArray(initialSize[s])]
  /\ yPoints = [s \in Series |-> NewArray(initialSize[s])]
  /\ dataSeriesLength = [s \in Series |-> 0]
  /\ \E q \in ListsUpTo(MaxRegistered) :
       listeners = [s \in Series |-> IF s \in Listened THEN q ELSE <<>>]
  /\ ret = NoCall
  /\ fired = <<>>
  /\ appended = [s \in Series |-> <<>>]
  /\ adds = [s \in Series |-> 0]
  /\ evictions = [s \in Series |-> 0]
  /\ pointCalls = [s \in Series |-> <<>>]
  /\ received = [s \in Series |-> <<>>]
  /\ nCalls = 0
  /\ InitDemoIdle
  /\ chart.options = [width |-> 190, height |-> 140, rightGraphMargin |-> 10]
  /\ IdleBarNode

NextRegistered ==
  \/ \E s \in Listened, l \in Listeners : AddDataSeriesListener(s, l)
  \/ \E s \in Listened, l \in Listeners : RemoveDataSeriesListener(s, l)
  \/ \E s \in Listened, p \in Points : AddPoint(s, p)

SpecRegistered == InitRegistered /\ [][NextRegistered]_vars

ChartTimes == 0..MaxChartTime

\* timeProperty.set( time ) by the owner of the chart: the linked callback
\* replaces the mapping
ChartSetTime(time) ==
  /\ time # chart.time
  /\ chart' = [chart EXCEPT !.time = time, !.transform = ChartLink(chart.options, time)]
  /\ UNCHANGED <<emitter, status, gridDemo, chartDemo, seismographDemo, cursorDemo,
                 stepLog, nSteps>>
  /\ UNCHANGED seriesVars
  /\ UNCHANGED barNode

InitChart == IdleSeries /\ InitDemoIdle /\ IdleBarNode

NextChart == \E time \in ChartTimes : ChartSetTime(time)

SpecChart == InitChart /\ [][NextChart]_vars

\* ------------------------------------------------------- DynamicSeries
\* the series of the demos: an ordered list of points, oldest first
hasData(data) == Len(data) > 0

addXYDataPoint(data, x, y) == Append(data, [x |-> x, y |-> y])

\* getDataPoint( index ): out of range fails
getDataPoint(data, index) ==
  IF index >= 0 /\ index < Len(data)
    THEN [threw |-> FALSE, point |-> data[index + 1]]
    ELSE [threw |-> TRUE, point |-> [x |-> 0, y |-> 0]]

\* shiftData(): drops the oldest point; nothing to drop on an empty series
shiftData(data) == IF Len(data) > 0 THEN Tail(data) ELSE data

\* the loop  while ( first.getDataPoint( 0 ).x < limit ) { shiftData() on
\* every series }  where first is the head of the list of series
RECURSIVE EvictLoop(_, _, _)

\* the log entry of one shiftData() call
Shifted(data) == IF hasData(data) THEN "evict" ELSE "underflow"

\* an  if  in place of the  while
EvictOnce(seriesList, limit, log) ==
  LET oldest == getDataPoint(seriesList[1], 0)
  IN IF oldest.threw
       THEN [series |-> seriesList, log |-> Append(log, "throw"), threw |-> TRUE]
       ELSE IF oldest.point.x < limit
         THEN [series |-> [i \in 1..Len(seriesList) |-> shiftData(seriesList[i])],
               log |-> log \o [i \in 1..Len(seriesList) |-> Shifted(seriesList[i])],
               threw |-> FALSE]
         ELSE [series |-> seriesList, log |-> log, threw |-> FALSE]

EvictLoop(seriesList, limit, log) ==
  LET oldest == getDataPoint(seriesList[1], 0)
  IN IF oldest.threw
       THEN [series |-> seriesList, log |-> Append(log, "throw"), threw |-> TRUE]
       ELSE IF oldest.point.x < limit
         THEN EvictLoop([i \in 1..Len(seriesList) |-> shiftData(seriesList[i])],
                        limit,
                        log \o [i \in 1..Len(seriesList) |-> Shifted(seriesList[i])])
         ELSE [series |-> seriesList, log |-> log, threw |-> FALSE]

\* ------------------------------------------------- GriddleDemoScreenView
\* createRectangleInvertedYMapping( source, dest )
RectangleInvertedYMapping(source, dest) ==
  [source |-> source, dest |-> dest, invertedY |-> TRUE]

\* the sampled value, kept as the expression and its argument
Sample(f, time) == [f |-> f, t |-> time]

\* if drawing a scatter plot, just draw a new dot every half second
halfSecond == Unit \div 2

\* demoGridNode ---------------------------------------------------------
NewGridDemo ==
  [offset |-> 0, scrolling |-> FALSE,
   transform |-> RectangleMapping(Bounds2(0, 0, 10 * Unit, 10 * Unit),
                                  Bounds2(0, 0, 400, 400))]

GridTick(g, dt) ==
  IF g.scrolling
    THEN [state |-> [g EXCEPT
                       !.offset = g.offset - dt,
                       !.transform = RectangleMapping(
                          Bounds2(g.offset - dt, g.offset - dt,
                                  10 * Unit + g.offset - dt, 10 * Unit + g.offset - dt),
                          Bounds2(0, 0, 400, 400))],
          log |-> <<"recompute">>, threw |-> FALSE]
    ELSE [state |-> g, log |-> <<>>, threw |-> FALSE]

\* demoScrollingChartNode -----------------------------------------------
chartMaxTime == 10 * Unit

verticalRange == [min |-> (0 - 5) * Unit, max |-> 5 * Unit]

NewChartDemo ==
  [time |-> 0, style |-> "LINE",
   transform |-> RectangleInvertedYMapping(
                   Bounds2(0, verticalRange.min, chartMaxTime, verticalRange.max),
                   Bounds2(0, 0, 500, 500)),
   series1 |-> <<>>, series2 |-> <<>>]

\* the mapping panned to the time before the increment
ChartDemoTransformStale(c, time) ==
  IF time > chartMaxTime
    THEN RectangleInvertedYMapping(
           Bounds2(c.time - chartMaxTime, verticalRange.min + c.time - chartMaxTime,
                   c.time, verticalRange.max + c.time - chartMaxTime),
           Bounds2(0, 0, 500, 500))
    ELSE c.transform

\* the panned mapping set once time has gone beyond maxTime
ChartDemoTransform(c, time) ==
  IF time > chartMaxTime
    THEN RectangleInvertedYMapping(
           Bounds2(time - chartMaxTime, verticalRange.min + time - chartMaxTime,
                   time, verticalRange.max + time - chartMaxTime),
           Bounds2(0, 0, 500, 500))
    ELSE c.transform

\* the listener without the half second rule
ChartDemoTickEveryTick(c, dt) ==
  LET time == c.time + dt
      panned == [c EXCEPT !.time = time, !.transform = ChartDemoTransform(c, time)]
      log1 == IF time > chartMaxTime THEN <<"recompute">> ELSE <<>>
      tooSoon == FALSE
      evicted == EvictLoop(
                   <<addXYDataPoint(c.series1, time, Sample("t+sin(t)-5", time)),
                     addXYDataPoint(c.series2, time, Sample("t+sin(t+1)-5", time))>>,
                   time - chartMaxTime,
                   log1 \o <<"append", "append">>)
  IN IF tooSoon
       THEN [state |-> panned, log |-> Append(log1, "skip"), threw |-> FALSE]
       ELSE [state |-> [panned EXCEPT !.series1 = evicted.series[1],
                                      !.series2 = evicted.series[2]],
             log |-> evicted.log, threw |-> evicted.threw]

\* the listener of demoScrollingChartNode
ChartDemoTick(c, dt) ==
  LET time == c.time + dt
      panned == [c EXCEPT !.time = time, !.transform = ChartDemoTransform(c, time)]
      log1 == IF time > chartMaxTime THEN <<"recompute">> ELSE <<>>
      tooSoon == /\ c.style = "SCATTER"
                 /\ hasData(c.series1)
                 /\ time - getDataPoint(c.series1, Len(c.series1) - 1).point.x < halfSecond
      evicted == EvictLoop(
                   <<addXYDataPoint(c.series1, time, Sample("t+sin(t)-5", time)),
                     addXYDataPoint(c.series2, time, Sample("t+sin(t+1)-5", time))>>,
                   time - chartMaxTime,
                   log1 \o <<"append", "append">>)
  IN IF tooSoon
       THEN [state |-> panned, log |-> Append(log1, "skip"), threw |-> FALSE]
       ELSE [state |-> [panned EXCEPT !.series1 = evicted.series[1],
                                      !.series2 = evicted.series[2]],
             log |-> evicted.log, threw |-> evicted.threw]

\* demoSeismographNode ---------------------------------------------------
seismographMaxTime == 4 * Unit

NewSeismographDemo == [time |-> 0, series1 |-> <<>>]

\* the listener with the eviction loop ahead of the append
SeismographTickEvictFirst(z, dt) ==
  LET time == z.time + dt
      evicted == EvictLoop(<<z.series1>>, time - seismographMaxTime, <<>>)
  IN [state |-> [z EXCEPT !.time = time,
                          !.series1 = addXYDataPoint(evicted.series[1], time,
                                                     Sample("sin(t)", time))],
      log |-> Append(evicted.log, "append"), threw |-> evicted.threw]

\* the listener of demoSeismographNode
SeismographTick(z, dt) ==
  LET time == z.time + dt
      evicted == EvictLoop(<<addXYDataPoint(z.series1, time, Sample("sin(t)", time))>>,
                           time - seismographMaxTime, <<"append">>)
  IN [state |-> [z EXCEPT !.time = time, !.series1 = evicted.series[1]],
      log |-> evicted.log, threw |-> evicted.threw]

\* demoXYCursorPlot -------------------------------------------------------
cursorMaxTime == 10 * Unit

chartRange == [min |-> 0 - Unit, max |-> Unit]

NewCursorDemo ==
  [time |-> 0, dragging |-> FALSE, cursorValue |-> 0,
   transform |-> RectangleInvertedYMapping(
                   Bounds2(0, chartRange.min, cursorMaxTime, chartRange.max),
                   Bounds2(0, 0, 800, 200)),
   dataSeries |-> <<>>]

\* the listener with the transform set ahead of the append
CursorTickRecomputeFirst(c, dt) ==
  LET time == c.time + dt
      log1 == IF time > cursorMaxTime THEN <<"recompute", "append">> ELSE <<"append">>
      transform == IF time > cursorMaxTime
                     THEN RectangleInvertedYMapping(
                            Bounds2(time - cursorMaxTime, chartRange.min, time, chartRange.max),
                            Bounds2(0, 0, 800, 200))
                     ELSE c.transform
      evicted == EvictLoop(<<addXYDataPoint(c.dataSeries, time, Sample("sin(t)", time))>>,
                           time - cursorMaxTime, log1)
  IN IF c.dragging
       THEN [state |-> c, log |-> <<>>, threw |-> FALSE]
       ELSE [state |-> [c EXCEPT !.time = time, !.transform = transform,
                                 !.dataSeries = evicted.series[1],
                                 !.cursorValue = IF evicted.threw THEN @ ELSE time],
             log |-> evicted.log, threw |-> evicted.threw]

\* the listener of demoXYCursorPlot
CursorTick(c, dt) ==
  LET time == c.time + dt
      log1 == IF time > cursorMaxTime THEN <<"append", "recompute">> ELSE <<"append">>
      transform == IF time > cursorMaxTime
                     THEN RectangleInvertedYMapping(
                            Bounds2(time - cursorMaxTime, chartRange.min, time, chartRange.max),
                            Bounds2(0, 0, 800, 200))
                     ELSE c.transform
      evicted == EvictLoop(<<addXYDataPoint(c.dataSeries, time, Sample("sin(t)", time))>>,
                           time - cursorMaxTime, log1)
  IN IF c.dragging
       THEN [state |-> c, log |-> <<>>, threw |-> FALSE]
       ELSE [state |-> [c EXCEPT !.time = time, !.transform = transform,
                                 !.dataSeries = evicted.series[1],
                                 !.cursorValue = IF evicted.threw THEN @ ELSE time],
             log |-> evicted.log, threw |-> evicted.threw]

\* the shared emitter ------------------------------------------------------
\* the listener a demo added, applied to the state of that demo
Tick(d, dt) ==
  CASE d = "GridNode" -> GridTick(gridDemo, dt)
    [] d = "XYChartNode" -> ChartDemoTick(chartDemo, dt)
    [] d = "SeismographNode" -> SeismographTick(seismographDemo, dt)
    [] d = "XYCursorChartNode" -> CursorTick(cursorDemo, dt)

\* emit calls the listeners in order; one that raises ends the emit
Called(d, dt) ==
  /\ d \in RangeOf(emitter)
  /\ \A i \in 1..IndexOf(emitter, d) : ~Tick(emitter[i], dt).threw

After(d, dt) == Tick(d, dt).state

\* step( dt ): emitter.emit( dt )
Step(dt) ==
  /\ nSteps < MaxSteps
  /\ nSteps' = nSteps + 1
  /\ gridDemo' = IF Called("GridNode", dt) THEN After("GridNode", dt) ELSE gridDemo
  /\ chartDemo' = IF Called("XYChartNode", dt) THEN After("XYChartNode", dt) ELSE chartDemo
  /\ seismographDemo' = IF Called("SeismographNode", dt)
                          THEN After("SeismographNode", dt) ELSE seismographDemo
  /\ cursorDemo' = IF Called("XYCursorChartNode", dt)
                     THEN After("XYCursorChartNode", dt) ELSE cursorDemo
  /\ stepLog' = [d \in Demos |-> IF Called(d, dt) THEN Tick(d, dt).log ELSE <<>>]
  /\ UNCHANGED <<chart, emitter, status>>
  /\ UNCHANGED seriesVars
  /\ UNCHANGED barNode

\* the demo is selected for the first time: createNode adds its listener
Create(d) ==
  /\ status[d] = "none"
  /\ status' = [status EXCEPT ![d] = "created"]
  /\ emitter' = Append(emitter, d)
  /\ gridDemo' = IF d = "GridNode" THEN NewGridDemo ELSE gridDemo
  /\ chartDemo' = IF d = "XYChartNode" THEN NewChartDemo ELSE chartDemo
  /\ seismographDemo' = IF d = "SeismographNode" THEN NewSeismographDemo ELSE seismographDemo
  /\ cursorDemo' = IF d = "XYCursorChartNode" THEN NewCursorDemo ELSE cursorDemo
  /\ stepLog' = NoLog
  /\ UNCHANGED <<chart, nSteps>>
  /\ UNCHANGED seriesVars
  /\ UNCHANGED barNode

\* the demos whose dispose was swapped for one that removes the listener
RemovesListener == {"XYChartNode", "SeismographNode"}

\* dispose() of the node a demo returned
Dispose(d) ==
  /\ status[d] = "created"
  /\ status' = [status EXCEPT ![d] = "disposed"]
  /\ emitter' = IF d \in RemovesListener
                  THEN Splice1(emitter, IndexOf(emitter, d))
                  ELSE emitter
  /\ stepLog' = NoLog
  /\ UNCHANGED <<chart, gridDemo, chartDemo, seismographDemo, cursorDemo, nSteps>>
  /\ UNCHANGED seriesVars
  /\ UNCHANGED barNode

PlotStyles == {"LINE", "SCATTER"}

\* a callback that clears series1 only
SetStyleClearsSeries1(style) ==
  /\ status["XYChartNode"] = "created"
  /\ style # chartDemo.style
  /\ chartDemo' = [chartDemo EXCEPT !.style = style, !.series1 = <<>>]
  /\ stepLog' = NoLog
  /\ UNCHANGED <<chart, emitter, status, gridDemo, seismographDemo, cursorDemo, nSteps>>
  /\ UNCHANGED seriesVars
  /\ UNCHANGED barNode

\* the switch sets styleProperty; the linked callback clears both series
SetStyle(style) ==
  /\ status["XYChartNode"] = "created"
  /\ style # chartDemo.style
  /\ chartDemo' = [chartDemo EXCEPT !.style = style, !.series1 = <<>>, !.series2 = <<>>]
  /\ stepLog' = NoLog
  /\ UNCHANGED <<chart, emitter, status, gridDemo, seismographDemo, cursorDemo, nSteps>>
  /\ UNCHANGED seriesVars
  /\ UNCHANGED barNode

\* cursorOptions.drag and cursorOptions.endDrag
SetDragging(dragging) ==
  /\ status["XYCursorChartNode"] = "created"
  /\ dragging # cursorDemo.dragging
  /\ cursorDemo' = [cursorDemo EXCEPT !.dragging = dragging]
  /\ stepLog' = NoLog
  /\ UNCHANGED <<chart, emitter, status, gridDemo, chartDemo, seismographDemo, nSteps>>
  /\ UNCHANGED seriesVars
  /\ UNCHANGED barNode

\* the sticky toggle button sets scrollingProperty
SetScrolling(scrolling) ==
  /\ status["GridNode"] = "created"
  /\ scrolling # gridDemo.scrolling
  /\ gridDemo' = [gridDemo EXCEPT !.scrolling = scrolling]
  /\ stepLog' = NoLog
  /\ UNCHANGED <<chart, emitter, status, chartDemo, seismographDemo, cursorDemo, nSteps>>
  /\ UNCHANGED seriesVars
  /\ UNCHANGED barNode

\* the three scrolling demos have been selected, in the order of the list
InitDemos ==
  /\ IdleSeries
  /\ chart = NewChart([width |-> 190, height |-> 140, rightGraphMargin |-> 10], 0)
  /\ emitter = <<"XYChartNode", "SeismographNode", "XYCursorChartNode">>
  /\ status = [d \in Demos |-> IF d = "GridNode" THEN "none" ELSE "created"]
  /\ gridDemo = NewGridDemo
  /\ chartDemo = NewChartDemo
  /\ seismographDemo = NewSeismographDemo
  /\ cursorDemo = NewCursorDemo
  /\ stepLog = NoLog
  /\ nSteps = 0
  /\ IdleBarNode

NextDemos ==
  \/ \E dt \in Dts : Step(dt)
  \/ \E style \in PlotStyles : SetStyle(style)
  \/ \E dragging \in BOOLEAN : SetDragging(dragging)

SpecDemos == InitDemos /\ [][NextDemos]_vars

\* demos are selected and disposed while the screen is stepped
MaxScreenSteps == 2    \* step( dt ) calls made while demos come and go

InitScreen ==
  /\ IdleSeries
  /\ InitDemoIdle
  /\ chart = NewChart([width |-> 190, height |-> 140, rightGraphMargin |-> 10], 0)
  /\ IdleBarNode

NextScreen ==
  \/ \E d \in Demos : Create(d)
  \/ \E d \in Demos : Dispose(d)
  \/ \E dt \in Dts : nSteps < MaxScreenSteps /\ Step(dt)
  \/ \E scrolling \in BOOLEAN : SetScrolling(scrolling)

SpecScreen == InitScreen /\ [][NextScreen]_vars

\* ------------------------------------------------------ BarNode actions
\* update()
Update ==
  /\ barNode' = Updated(barNode)
  /\ UNCHANGED <<seriesVars, demoVars>>

\* barEntry.property.set( value ): the node is not redrawn until update()
SetValue(i, value) ==
  /\ barNode.sets < MaxSets
  /\ i \in 1..Len(barNode.barEntries)
  /\ value # barNode.barEntries[i].value
  /\ barNode' = [barNode EXCEPT !.barEntries[i].value = value, !.op = "set",
                                !.sets = @ + 1]
  /\ UNCHANGED <<seriesVars, demoVars>>

\* scaleProperty.set( scale )
SetScale(scale) ==
  /\ barNode.sets < MaxSets
  /\ scale # barNode.scale
  /\ barNode' = [barNode EXCEPT !.scale = scale, !.op = "set", !.sets = @ + 1]
  /\ UNCHANGED <<seriesVars, demoVars>>

InitBar ==
  /\ IdleSeries
  /\ InitDemoIdle
  /\ chart = NewChart([width |-> 190, height |-> 140, rightGraphMargin |-> 10], 0)
  /\ \E barEntries \in BarEntries, totalRange \in TotalRanges, options \in BarOptions :
       barNode = NewBarNode(Coloured(barEntries), totalRange, 1, options)

NextBar ==
  \/ Update
  \/ \E i \in 1..MaxEntries, value \in Values : SetValue(i, value)
  \/ \E scale \in Scales : SetScale(scale)

SpecBar == InitBar /\ [][NextBar]_vars

\* ---------------------------------------------------------------- claims

\* C1: without an intervening clear, getX(i) and getY(i) for every i in
\* [0, getLength()) return the i-th point appended to that series, whatever
\* was appended to or cleared from the other series.
C1_RoundTrip ==
  \A s \in Series :
    /\ getLength(s) = Len(appended[s])
    /\ \A i \in 0..(getLength(s) - 1) :
         /\ getX(s, i) = [threw |-> FALSE, val |-> appended[s][i + 1].x]
         /\ getY(s, i) = [threw |-> FALSE, val |-> appended[s][i + 1].y]

\* s1 holds two points and the last call appended to s2
C1_Witness ==
  /\ Len(appended["s1"]) = 2
  /\ ret.op = "addPoint" /\ ret.s = "s2"

\* C2: getLength() is the number of addPoint calls minus the number of
\* successful evictions since the last clear() or construction: +1 per
\* addPoint, -1 per successful shiftData, 0 right after clear().
C2_LengthAccounting ==
  \A s \in Series : getLength(s) = adds[s] - evictions[s]

\* a series that has taken two points and evicted one of them
C2_Witness ==
  \E s \in Series : adds[s] = 2 /\ evictions[s] = 1 /\ ret.op = "shiftData"

\* C3: getX(i) and getY(i) raise for every i >= getLength(), also when the
\* slot still holds a value from before clear(); getX(getLength() - 1)
\* returns when the series is not empty.
C3_OutOfRangeAbove ==
  \A s \in Series :
    /\ \A i \in Indices :
         i >= getLength(s) => getX(s, i).threw /\ getY(s, i).threw
    /\ getLength(s) > 0 =>
         ~getX(s, getLength(s) - 1).threw /\ ~getY(s, getLength(s) - 1).threw

\* right after clear(), slot 0 still holds the old value and getX(0) raises
C3_Witness ==
  /\ ret.op = "clear"
  /\ ArrGet(xPoints[ret.s], 0) # Undefined
  /\ getX(ret.s, 0).threw

\* C4: getX(i) and getY(i) raise for every negative i.
C4_NegativeIndexFails ==
  \A s \in Series : \A i \in Indices :
    i < 0 => getX(s, i).threw /\ getY(s, i).threw

\* the points one listener was notified of, in the order it was called
ReceivedBy(s, l) ==
  LET mine == SelectSeq(received[s], LAMBDA n : n.listener = l)
  IN [k \in 1..Len(mine) |-> [x |-> mine[k].x, y |-> mine[k].y]]

\* C5 as stated: every registered listener is notified exactly once per
\* addPoint call, in the order of the calls.
C5_OncePerListener ==
  \A s \in Series : \A l \in RangeOf(listeners[s]) :
    ReceivedBy(s, l) = pointCalls[s]

\* C5 amended: every addPoint call invokes the entries of the listener list
\* in list order, each entry exactly once, so N calls deliver N
\* notifications to each entry, in call order; a listener registered k
\* times holds k entries.
C5_NotificationTrace ==
  \A s \in Series :
    LET n == Len(listeners[s])
    IN /\ Len(received[s]) = Len(pointCalls[s]) * n
       /\ \A c \in 1..Len(pointCalls[s]) : \A j \in 1..n :
            LET note == received[s][(c - 1) * n + j]
            IN /\ note.type = "point"
               /\ note.listener = listeners[s][j]
               /\ note.x = pointCalls[s][c].x
               /\ note.y = pointCalls[s][c].y

\* two different listeners have seen two addPoint calls
C5_Witness ==
  \E s \in Series :
    /\ Len(listeners[s]) = 2 /\ listeners[s][1] # listeners[s][2]
    /\ Len(pointCalls[s]) = 2
    /\ ret.op = "addPoint" /\ ret.s = s

\* C6: addPoint(x, y) calls the listeners with (x, y, previousX, previousY):
\* the previous pair is the point appended just before, and is undefined
\* exactly when the new point is the first since construction or clear().
C6_Payload ==
  ret.op = "addPoint" =>
    LET a == appended[ret.s]
        n == Len(a)
    IN \A k \in 1..Len(fired) :
         /\ fired[k].type = "point"
         /\ fired[k].x = a[n].x /\ fired[k].y = a[n].y
         /\ IF n = 1
              THEN fired[k].previousX = Undefined /\ fired[k].previousY = Undefined
              ELSE /\ fired[k].previousX = a[n - 1].x /\ fired[k].previousX # Undefined
                   /\ fired[k].previousY = a[n - 1].y /\ fired[k].previousY # Undefined

\* the first point after a clear(): the arrays still hold an older second
\* point, and the listener is told there is no previous value
C6_Witness ==
  /\ ret.op = "addPoint" /\ Len(fired) > 0
  /\ Len(appended[ret.s]) = 1
  /\ ArrGet(xPoints[ret.s], 1) # Undefined
  /\ fired[1].previousX = Undefined

\* C7: a point listener called by addPoint(x, y) reads getLength() as the
\* length before the call plus 1, and reads (x, y) at getLength() - 1.
C7_AppendBeforeNotify ==
  ret.op = "addPoint" =>
    \A k \in 1..Len(fired) :
      /\ fired[k].lengthSeen = ret.length + 1
      /\ fired[k].lastSeen = [threw |-> FALSE, val |-> <<fired[k].x, fired[k].y>>]

\* C8: clear() triggers 'cleared' exactly once, whatever the length of the
\* series, and calls no point listener.
C8_ClearFiresOnce ==
  ret.op = "clear" => fired = <<ClearedEvent(ret.s)>>

\* clear() of a series that held two points and had a point listener
C8_Witness ==
  ret.op = "clear" /\ ret.length = 2 /\ Len(listeners[ret.s]) > 0

\* C9: removeDataSeriesListener with a listener that is not registered (never
\* added, or already removed) does not raise and leaves the listener lists,
\* the arrays and the lengths as they were.
C9_IdempotentRemoval ==
  [][(/\ ret'.op = "removeDataSeriesListener"
      /\ ret'.listener \notin RangeOf(listeners[ret'.s]))
        => /\ ~ret'.threw
           /\ listeners' = listeners
           /\ xPoints' = xPoints /\ yPoints' = yPoints
           /\ dataSeriesLength' = dataSeriesLength]_vars

\* a removal that left a non-empty listener list as it was: the history of
\* calls since the list last changed is still there
C9_Witness ==
  /\ ret.op = "removeDataSeriesListener"
  /\ ret.listener \notin RangeOf(listeners[ret.s])
  /\ Len(listeners[ret.s]) > 0
  /\ Len(received[ret.s]) > 0
  /\ dataSeriesLength[ret.s] > 0

\* C10: once more points than initialSize have been appended, every one of
\* them is still in the arrays at its index and readable, and getLength()
\* exceeds initialSize.
C10_GrowthTransparent ==
  \A s \in Series :
    adds[s] > initialSize[s] =>
      /\ getLength(s) > initialSize[s]
      /\ Len(xPoints[s]) >= adds[s] /\ Len(yPoints[s]) >= adds[s]
      /\ \A i \in 0..(adds[s] - 1) :
           /\ ArrGet(xPoints[s], i) = appended[s][i + 1].x
           /\ ArrGet(yPoints[s], i) = appended[s][i + 1].y
           /\ ~getX(s, i).threw /\ ~getY(s, i).threw

\* three points in a series constructed with initialSize 2
C10_Witness ==
  \E s \in Series : initialSize[s] = 2 /\ adds[s] = 3 /\ ret.op = "addPoint"

\* C11: 0 <= length <= the physical size of both arrays, and for every
\* i < length xPoints[i] and yPoints[i] hold the x and the y of the same
\* appended sample.
C11_BufferInvariant ==
  \A s \in Series :
    /\ 0 <= dataSeriesLength[s]
    /\ dataSeriesLength[s] <= Len(xPoints[s])
    /\ dataSeriesLength[s] <= Len(yPoints[s])
    /\ dataSeriesLength[s] = Len(appended[s])
    /\ \A i \in 0..(dataSeriesLength[s] - 1) :
         /\ ArrGet(xPoints[s], i) = appended[s][i + 1].x
         /\ ArrGet(yPoints[s], i) = appended[s][i + 1].y

\* a series grown past its initial size: the length equals the capacity
C11_Witness ==
  \E s \in Series :
    /\ dataSeriesLength[s] = 3
    /\ Len(xPoints[s]) = 3 /\ initialSize[s] < 3

\* C16: shiftData() on a series that holds samples removes the one at
\* index 0, leaves the others in their order at indices one lower, and
\* calls no point listener and triggers no 'cleared'.
C16_ShiftRemovesOldest ==
  [][\A s \in Series :
       (ret'.op = "shiftData" /\ ret'.s = s /\ dataSeriesLength[s] > 0)
         => /\ dataSeriesLength'[s] = dataSeriesLength[s] - 1
            /\ \A i \in 0..(dataSeriesLength[s] - 2) :
                 /\ GetAt(xPoints'[s], dataSeriesLength'[s], i)
                      = GetAt(xPoints[s], dataSeriesLength[s], i + 1)
                 /\ GetAt(yPoints'[s], dataSeriesLength'[s], i)
                      = GetAt(yPoints[s], dataSeriesLength[s], i + 1)
            /\ fired' = <<>>
            /\ received' = received]_vars

\* a series with a listener dropped from three samples to two
C16_Witness ==
  /\ ret.op = "shiftData" /\ ret.length = 3
  /\ Len(listeners[ret.s]) > 0
  /\ dataSeriesLength[ret.s] = 2

\* C17 as stated: a constructor given initialSize <= 0 raises.
C17_NonPositiveSizeRaises ==
  \A s \in Listened : initialSize[s] <= 0 => ret.op = "new" /\ ret.threw

\* C17 amended: a negative initialSize raises at construction and leaves no
\* instance to call; initialSize 0 constructs a series that takes points and
\* reads them back like any other.
C17_NegativeSizeRaises ==
  \A s \in Listened :
    /\ initialSize[s] < 0 =>
         ret.op = "new" /\ ret.threw /\ dataSeriesLength[s] = 0 /\ xPoints[s] = <<>>
    /\ initialSize[s] = 0 =>
         /\ ret.op = "new" => ~ret.threw
         /\ getLength(s) = Len(appended[s])
         /\ \A i \in 0..(getLength(s) - 1) :
              /\ getX(s, i) = [threw |-> FALSE, val |-> appended[s][i + 1].x]
              /\ getY(s, i) = [threw |-> FALSE, val |-> appended[s][i + 1].y]

\* two points in a series constructed with initialSize 0
C17_Witness ==
  \E s \in Listened : initialSize[s] = 0 /\ dataSeriesLength[s] = 2

\* the time range a mapping shows
TimeRange(transform) == <<transform.source.minX, transform.source.maxX>>

\* C13 as stated: while time <= 4 the chart shows [0, 4], and once
\* time > 4 it shows [time - 4, time].
C13_SlidingWindowPolicy ==
  TimeRange(chart.transform) =
    IF chart.time <= chartSpan
      THEN <<0, chartSpan>>
      ELSE <<chart.time - chartSpan, chart.time>>

\* C13 amended: for every value of timeProperty the chart shows
\* [time - 4, time], also while time <= 4, mapped onto the plot area.
C13_WindowEndsAtTime ==
  /\ TimeRange(chart.transform) = <<chart.time - chartSpan, chart.time>>
  /\ chart.transform.dest =
       Bounds2(0, 0, chart.options.width - chart.options.rightGraphMargin,
               chart.options.height)

\* timeProperty was set to a time inside the first window span
C13_Witness ==
  chart.time > 0 /\ chart.time < chartSpan

\* C12: after every tick of demoScrollingChartNode and demoXYCursorPlot the
\* mapping shows the times [0, maxTime] while time <= maxTime and
\* [time - maxTime, time] once time > maxTime, a range maxTime wide.
C12_DemoWindowPolicy ==
  /\ status["XYChartNode"] = "created" =>
       /\ TimeRange(chartDemo.transform) =
            IF chartDemo.time <= chartMaxTime
              THEN <<0, chartMaxTime>>
              ELSE <<chartDemo.time - chartMaxTime, chartDemo.time>>
       /\ chartDemo.transform.source.maxX - chartDemo.transform.source.minX = chartMaxTime
  /\ status["XYCursorChartNode"] = "created" =>
       /\ TimeRange(cursorDemo.transform) =
            IF cursorDemo.time <= cursorMaxTime
              THEN <<0, cursorMaxTime>>
              ELSE <<cursorDemo.time - cursorMaxTime, cursorDemo.time>>
       /\ cursorDemo.transform.source.maxX - cursorDemo.transform.source.minX = cursorMaxTime

\* a tick took both demos to time 12: the range shown is [2, 12]
C12_Witness ==
  /\ chartDemo.time = 12 * Unit
  /\ TimeRange(chartDemo.transform) = <<2 * Unit, 12 * Unit>>
  /\ cursorDemo.time = 12 * Unit
  /\ TimeRange(cursorDemo.transform) = <<2 * Unit, 12 * Unit>>
  /\ "recompute" \in RangeOf(stepLog["XYCursorChartNode"])

\* the points of data no more than maxTime older than the newest one
Retained(data, maxTime) ==
  SelectSeq(data, LAMBDA p : p.x >= data[Len(data)].x - maxTime)

\* the tick of demo d that just ended appended a point
Appended(log) == "append" \in RangeOf(log)

\* the tick turned series before into series after: one point at the
\* new time was appended, the aged-out points and only they are gone
EvictedExactly(before, after, time, maxTime) ==
  /\ hasData(after)
  /\ after[Len(after)].x = time
  /\ after = Retained(Append(before, after[Len(after)]), maxTime)
  /\ \A i \in 1..Len(after) : after[i].x >= time - maxTime

\* C14: at the end of every tick that appended a point, a series holds no
\* point more than maxTime older than the newest one, and every point of
\* the series before the tick that is not that old is still there.
C14_EvictionPostcondition ==
  [][/\ Appended(stepLog'["XYChartNode"]) =>
          /\ EvictedExactly(chartDemo.series1, chartDemo'.series1,
                            chartDemo'.time, chartMaxTime)
          /\ EvictedExactly(chartDemo.series2, chartDemo'.series2,
                            chartDemo'.time, chartMaxTime)
     /\ Appended(stepLog'["SeismographNode"]) =>
          EvictedExactly(seismographDemo.series1, seismographDemo'.series1,
                         seismographDemo'.time, seismographMaxTime)
     /\ Appended(stepLog'["XYCursorChartNode"]) =>
          EvictedExactly(cursorDemo.dataSeries, cursorDemo'.dataSeries,
                         cursorDemo'.time, cursorMaxTime)
    ]_vars

\* a tick evicted from every series and left older points beside the new one
C14_Witness ==
  /\ stepLog["XYChartNode"] = <<"recompute", "append", "append", "evict", "evict">>
  /\ Len(chartDemo.series1) >= 2
  /\ "evict" \in RangeOf(stepLog["SeismographNode"])
  /\ "evict" \in RangeOf(stepLog["XYCursorChartNode"])
  /\ Len(cursorDemo.dataSeries) >= 2

\* the steps of a log are in the order given by rank, with one recompute at most
InOrder(log, rank) ==
  /\ \A i \in 1..Len(log) : log[i] \in DOMAIN rank
  /\ \A i, j \in 1..Len(log) : i < j => rank[log[i]] <= rank[log[j]]
  /\ Cardinality({i \in 1..Len(log) : log[i] = "recompute"}) <= 1

AppendFirst == [append |-> 1, recompute |-> 2, evict |-> 3, skip |-> 3]

RecomputeFirst == [recompute |-> 1, append |-> 2, evict |-> 3, skip |-> 3]

\* C15 as stated: every tick handler appends, then recomputes the
\* transform at most once, then evicts.
C15_AppendRecomputeEvict ==
  \A d \in Demos : InOrder(stepLog[d], AppendFirst)

\* C15 amended: every tick recomputes the transform at most once and evicts
\* last; demoXYCursorPlot and demoSeismographNode append first, while
\* demoScrollingChartNode recomputes the transform ahead of its appends.
C15_OrderPerHandler ==
  /\ InOrder(stepLog["XYChartNode"], RecomputeFirst)
  /\ InOrder(stepLog["XYCursorChartNode"], AppendFirst)
  /\ InOrder(stepLog["SeismographNode"], AppendFirst)
  /\ InOrder(stepLog["GridNode"], AppendFirst)
  /\ Len(stepLog["XYChartNode"]) >= 2 /\ stepLog["XYChartNode"][1] = "recompute" =>
       stepLog["XYChartNode"][2] \in {"append", "skip"}

\* a tick beyond maxTime in which both handlers appended, recomputed and evicted
C15_Witness ==
  /\ stepLog["XYChartNode"] = <<"recompute", "append", "append", "evict", "evict">>
  /\ stepLog["XYCursorChartNode"] = <<"append", "recompute", "evict">>

\* C18: once a demo node that added a listener to the shared emitter is
\* disposed, the listener is no longer registered and no later step( dt )
\* runs it.
C18_DisposalDetaches ==
  \A d \in Demos :
    status[d] = "disposed" =>
      /\ d \notin RangeOf(emitter)
      /\ stepLog[d] = <<>>

\* the eviction loop of a tick read and shifted only series that held a
\* point, and a tick that appended left the new point in the series
LoopSafe(log, data, time) ==
  /\ "throw" \notin RangeOf(log)
  /\ "underflow" \notin RangeOf(log)
  /\ Appended(log) => hasData(data) /\ data[Len(data)].x = time

\* C19: in every tick the eviction loop never calls getDataPoint( 0 ) or
\* shiftData() on an empty series, and it ends with at least the newest
\* point left in the series.
C19_EvictionNeverUnderflows ==
  /\ LoopSafe(stepLog["XYChartNode"], chartDemo.series1, chartDemo.time)
  /\ LoopSafe(stepLog["XYChartNode"], chartDemo.series2, chartDemo.time)
  /\ Len(chartDemo.series1) = Len(chartDemo.series2)
  /\ LoopSafe(stepLog["SeismographNode"], seismographDemo.series1, seismographDemo.time)
  /\ LoopSafe(stepLog["XYCursorChartNode"], cursorDemo.dataSeries, cursorDemo.time)

\* a tick whose loop evicted every point but the one just appended
C19_Witness ==
  /\ stepLog["SeismographNode"] = <<"append", "evict", "evict">>
  /\ Len(seismographDemo.series1) = 1

\* consecutive points of data are at least gap apart in x
Spaced(data, gap) ==
  \A i \in 1..(Len(data) - 1) : data[i + 1].x - data[i].x >= gap

\* C20: in SCATTER style, when series1 has data, a tick of
\* demoScrollingChartNode appends only if half a second has passed since
\* the newest point of series1 and otherwise leaves both series as they
\* were, so the points of a scatter plot are at least half a second apart.
C20_ScatterSampling ==
  [][/\ (/\ nSteps' = nSteps + 1
         /\ chartDemo.style = "SCATTER"
         /\ hasData(chartDemo.series1)) =>
          IF chartDemo'.time - chartDemo.series1[Len(chartDemo.series1)].x < halfSecond
            THEN /\ chartDemo'.series1 = chartDemo.series1
                 /\ chartDemo'.series2 = chartDemo.series2
                 /\ ~Appended(stepLog'["XYChartNode"])
            ELSE /\ Appended(stepLog'["XYChartNode"])
                 /\ chartDemo'.series1[Len(chartDemo'.series1)].x = chartDemo'.time
                 /\ chartDemo'.series2[Len(chartDemo'.series2)].x = chartDemo'.time
     /\ chartDemo'.style = "SCATTER" =>
          /\ Spaced(chartDemo'.series1, halfSecond)
          /\ Spaced(chartDemo'.series2, halfSecond)
    ]_vars

\* a scatter plot of two points, after a tick that came too soon to add a third
C20_Witness ==
  /\ chartDemo.style = "SCATTER"
  /\ Len(chartDemo.series1) = 2
  /\ stepLog["XYChartNode"] = <<"skip">>

\* the x values of a series, oldest first
Xs(data) == [i \in 1..Len(data) |-> data[i].x]

\* C21: after every tick and every change of plot style in
\* demoScrollingChartNode, series1 and series2 have the same length and
\* the same x at every index.
C21_SeriesInLockstep ==
  status["XYChartNode"] = "created" =>
    /\ Len(chartDemo.series1) = Len(chartDemo.series2)
    /\ Xs(chartDemo.series1) = Xs(chartDemo.series2)

\* a scatter plot, so the style was changed, after a tick that evicted
\* from both series and left points in them
C21_Witness ==
  /\ chartDemo.style = "SCATTER"
  /\ "evict" \in RangeOf(stepLog["XYChartNode"])
  /\ Len(chartDemo.series1) >= 2
  /\ chartDemo.series1 # chartDemo.series2

\* the number of entries of a listener list that are listener l
Count(seq, l) == Cardinality({i \in 1..Len(seq) : seq[i] = l})

\* the list without its earliest entry l
WithoutEarliest(seq, l) ==
  LET first == CHOOSE i \in 1..Len(seq) : seq[i] = l /\ \A j \in 1..(i - 1) : seq[j] # l
  IN [i \in 1..(Len(seq) - 1) |-> IF i < first THEN seq[i] ELSE seq[i + 1]]

\* C22: addDataSeriesListener adds an entry even for a listener that is
\* registered already; addPoint calls a listener once for each of its k
\* entries; removeDataSeriesListener of a registered listener removes its
\* earliest entry and no other, leaving k - 1.
C22_DuplicateRegistration ==
  [][/\ ret'.op = "addDataSeriesListener" =>
          /\ listeners'[ret'.s] = Append(listeners[ret'.s], ret'.listener)
          /\ Count(listeners'[ret'.s], ret'.listener)
               = Count(listeners[ret'.s], ret'.listener) + 1
     /\ (/\ ret'.op = "removeDataSeriesListener"
         /\ ret'.listener \in RangeOf(listeners[ret'.s])) =>
          /\ listeners'[ret'.s] = WithoutEarliest(listeners[ret'.s], ret'.listener)
          /\ Count(listeners'[ret'.s], ret'.listener)
               = Count(listeners[ret'.s], ret'.listener) - 1
     /\ ret'.op = "addPoint" =>
          \A l \in Listeners :
            Cardinality({i \in 1..Len(fired') : fired'[i].listener = l})
              = Count(listeners[ret'.s], l)
    ]_vars

\* a removal that left the removed listener registered, behind another one
C22_Witness ==
  /\ ret.op = "removeDataSeriesListener"
  /\ Len(listeners[ret.s]) = 2
  /\ listeners[ret.s][1] # ret.listener
  /\ listeners[ret.s][2] = ret.listener

\* v clamped to the range lo..hi
Clamp(v, lo, hi) == IF v < lo THEN lo ELSE IF v > hi THEN hi ELSE v

\* the scaled values of the entries of a BarNode
Scaled(node) == [i \in 1..Len(node.barEntries) |-> node.barEntries[i].value * node.scale]

\* the height an entry asks for: its scaled value, or what its
\* modifyBarHeight makes of it
Height(node, i) ==
  IF node.barEntries[i].modifier = "twice" THEN 2 * Scaled(node)[i] ELSE Scaled(node)[i]

RECURSIVE Sum(_)
Sum(seq) == IF seq = <<>> THEN 0 ELSE Head(seq) + Sum(Tail(seq))

\* more than one entry and a negative scaled value among them
CompositeNegative(node) ==
  Len(node.barEntries) > 1 /\ \E i \in 1..Len(node.barEntries) : Scaled(node)[i] < 0

\* the stack boundary above bar i, each one clamped to the effective range
RECURSIVE Boundary(_, _)
Boundary(node, i) ==
  IF i = 0
    THEN 0
    ELSE Clamp(Boundary(node, i - 1) + Height(node, i),
               EffectiveRange(node).min, EffectiveRange(node).max)

\* the rectangle goes from y1 to y2
Spans(rectangle, y1, y2) ==
  /\ rectangle.rectY = (IF y1 < y2 THEN y1 ELSE y2)
  /\ rectangle.rectHeight = (IF y1 < y2 THEN y2 - y1 ELSE y1 - y2)

StackTop(node) ==
  IF CompositeNegative(node)
    THEN Clamp(Sum(Scaled(node)), EffectiveRange(node).min, EffectiveRange(node).max)
    ELSE Boundary(node, Len(node.barEntries))

====
